---------------------------- MODULE Spec2Model ----------------------------
(***************************************************************************)
(* A model of minhash/universalhash.py: the universal hash constructor     *)
(* create_hashing, the generator random_int32 and the module-level driver  *)
(* that samples the hash, prints the observed range and saves a histogram. *)
(*                                                                         *)
(* Python numbers are modelled as tagged values.  An "int" is an unbounded *)
(* integer (Python promotes int to long, nothing wraps).  A "float" is a   *)
(* binary floating-point number with MantBits significant bits, rounded    *)
(* to nearest, ties to even, held as its numerator over 2^FracBits.        *)
(*                                                                         *)
(* TLC's integers are 32 bits wide, so the driver's widths are scaled      *)
(* down with their order kept:                                             *)
(*     source   32 < 53 < 61 < 64     (word, significand, prime, 2*word)   *)
(*     model     3 <  4 <  5 <  6                                          *)
(* 2^5 - 1 = 31 is a Mersenne prime as 2^61 - 1 is, it is not             *)
(* representable with MantBits bits as 2^61 - 1 is not with 53, and a      *)
(* float below 2^WordBits still has fraction bits as one below 2^32 has.   *)
(***************************************************************************)
EXTENDS Integers, Sequences, FiniteSets

VARIABLES pc, a, b, p, m, h, x, inputs, outputs, stdout, fig, saved, rng,
          runs, prev

vars == <<pc, a, b, p, m, h, x, inputs, outputs, stdout, fig, saved, rng,
          runs, prev>>

\* ------------------------------------------------------------ widths
\* (1<<32): the width of the "int32" the script speaks of, scaled.
WordBits == 3
\* The significand of a Python float (53 bits), scaled.
MantBits == 4
\* (1<<61)-1: the exponent of the Mersenne prime, scaled.
PrimeBits == 5
\* xrange(2**18): the number of samples, scaled.
N == 2

\* ------------------------------------------------------------ bounds
\* The pure-function specification applies h at most MaxCalls times,
\* to arguments 0..MaxX and range sizes 0..MaxM.
MaxCalls == 2
MaxX == 3
MaxM == 10
\* The seeded specification repeats the run up to MaxRuns times.
MaxRuns == 1

Pow2(n) == 2^n

\* Fraction bits of the fixed unit a float's numerator is counted in; the
\* unit plays the part of the smallest subnormal.
FracBits == 2 * MantBits
Unit == Pow2(FracBits)

\* ------------------------------------------------------------ Python values
None == [t |-> "None", v |-> 0]
ZeroDivisionError == [t |-> "ZeroDivisionError", v |-> 0]
PyInt(n) == [t |-> "int", v |-> n]
PyFloat(n) == [t |-> "float", v |-> n]
\* A list, with its elements in order.
PyList(s) == [t |-> "list", v |-> s]
IsNone(u) == u.t = "None"
IsNumber(u) == u.t \in {"int", "float"}

\* The one element of a one-element set.  {e(v) : v \in {u}} evaluates u
\* once and binds v to its value, as Python evaluates an operand once.
Once(S) == CHOOSE r \in S : TRUE

\* The number of low bits q loses to fit MantBits significant bits: the
\* least s >= minShift with q < 2^(MantBits + s) (q < 2^30).
Shift(q, minShift) ==
    CHOOSE s \in minShift .. (30 - MantBits) :
        /\ q < Pow2(MantBits + s)
        /\ (s = minShift \/ q >= Pow2(MantBits + s - 1))

\* q rounded to MantBits significant bits and to a multiple of 2^minShift,
\* to nearest, ties to even (q >= 0).
RoundAt(q, minShift) ==
    Once({LET lo == q \div d
              r == q % d
              up == (2 * r > d) \/ (2 * r = d /\ lo % 2 = 1)
          IN  (IF up THEN lo + 1 ELSE lo) * d :
            d \in {Pow2(Shift(q, minShift))}})

RoundSigned(q, minShift) ==
    Once({IF qq < 0 THEN -RoundAt(-qq, minShift) ELSE RoundAt(qq, minShift) :
            qq \in {q}})

\* float(n) for an int; a float is itself.
ToFloat(u) == IF u.t = "int" THEN PyFloat(RoundSigned(u.v * Unit, 0)) ELSE u

\* The exact value of a number, in units of 2^-FracBits (for comparisons).
Num(u) == IF u.t = "int" THEN u.v * Unit ELSE u.v

Lt(u, w) == Num(u) < Num(w)
Le(u, w) == Num(u) <= Num(w)

\* u * w (an operand that is an exception already raised stays it)
PyMul(u, w) ==
    Once({IF ~(IsNumber(uu) /\ IsNumber(ww)) THEN ZeroDivisionError
          ELSE IF uu.t = "int" /\ ww.t = "int" THEN PyInt(uu.v * ww.v)
          ELSE PyFloat(RoundSigned(ToFloat(uu).v * ToFloat(ww).v, FracBits)
                       \div Unit) :
            uu \in {u}, ww \in {w}})

\* u + w
PyAdd(u, w) ==
    Once({IF ~(IsNumber(uu) /\ IsNumber(ww)) THEN ZeroDivisionError
          ELSE IF uu.t = "int" /\ ww.t = "int" THEN PyInt(uu.v + ww.v)
          ELSE PyFloat(RoundSigned(ToFloat(uu).v + ToFloat(ww).v, 0)) :
            uu \in {u}, ww \in {w}})

\* Floored remainder, the sign of the divisor (n # 0).
FloorMod(i, n) == IF n > 0 THEN i % n ELSE -((-i) % (-n))

\* u % w: ZeroDivisionError on a zero divisor, an int for two ints, else
\* the float remainder (fmod is exact; the sign adjustment rounds).  An
\* operand that is an exception already raised stays that exception.
PyMod(u, w) ==
    Once({IF ~(IsNumber(uu) /\ IsNumber(ww)) THEN ZeroDivisionError
          ELSE IF uu.t = "int" /\ ww.t = "int"
               THEN IF ww.v = 0 THEN ZeroDivisionError
                    ELSE PyInt(FloorMod(uu.v, ww.v))
          ELSE IF ToFloat(ww).v = 0 THEN ZeroDivisionError
          ELSE PyFloat(RoundSigned(FloorMod(ToFloat(uu).v, ToFloat(ww).v), 0)) :
            uu \in {u}, ww \in {w}})

\* ------------------------------------------------------------ the script
\* def create_hashing(a, b, p, m): the closure over its four parameters.
create_hashing(ca, cb, cp, cm) ==
    [t |-> "function", a |-> ca, b |-> cb, p |-> cp, m |-> cm]

\* A slip: the coefficients change places, b*x+a.
inner_swapped(hh, arg) == PyAdd(PyMul(hh.b, arg), hh.a)

\* (a*x+b), the value h reduces.
inner(hh, arg) == PyAdd(PyMul(hh.a, arg), hh.b)

\* A slip: the reduction to the range is left out, (a*x+b) % p.
apply_h_no_range(hh, arg) == PyMod(inner(hh, arg), hh.p)

\* A slip: the two reductions change places, ((a*x+b) % m) % p.
apply_h_swapped(hh, arg) == PyMod(PyMod(inner(hh, arg), hh.m), hh.p)

\* A slip: the largest value m - 1 is taken for the range size,
\* ((a*x+b) % p) % (m - 1).
apply_h_max(hh, arg) ==
    PyMod(PyMod(inner(hh, arg), hh.p), PyAdd(hh.m, PyInt(-1)))

\* lambda x : ((a*x+b) % p) % m
apply_h(hh, arg) == PyMod(PyMod(inner(hh, arg), hh.p), hh.m)

\* random.random(): k / 2^MantBits for some 0 <= k < 2^MantBits.
random_random(k) == PyFloat(k * Pow2(FracBits - MantBits))

\* A slip: the scale is that of a double word, random.random()*((1<<64)-1).
random_int32_wide(k) == PyMul(random_random(k), PyInt(Pow2(2 * WordBits) - 1))

\* random_int32 = lambda : random.random()*((1<<32)-1)
random_int32(k) == PyMul(random_random(k), PyInt(Pow2(WordBits) - 1))

\* The generator.  Unseeded (as the script leaves it) the next output is
\* any of the outcomes; seeded, it is a function of the generator's state
\* (a full-period congruential step stands for the Mersenne Twister).
Outcomes == 0 .. (Pow2(MantBits) - 1)
Unseeded == [seeded |-> FALSE, seed |-> 0, state |-> 0]
Seeded(s) == [seeded |-> TRUE, seed |-> s, state |-> s]
\* A slip: the clock is mixed into every output, so that the outputs of
\* a later run differ whatever the seed.
DrawsClock(g) ==
    IF g.seeded THEN {(g.state + runs) % Pow2(MantBits)} ELSE Outcomes

\* The outputs random.random() can give next.
Draws(g) == IF g.seeded THEN {g.state} ELSE Outcomes
Advance(g) ==
    IF g.seeded
    THEN [g EXCEPT !.state = (5 * g.state + 3) % Pow2(MantBits)]
    ELSE g

RECURSIVE PyMax(_)
\* max(x): the first of the largest elements.
PyMax(s) ==
    IF Len(s) = 1 THEN s[1]
    ELSE LET rest == PyMax(Tail(s))
         IN  IF Lt(s[1], rest) THEN rest ELSE s[1]

RECURSIVE PyMin(_)
\* min(x): the first of the smallest elements.
PyMin(s) ==
    IF Len(s) = 1 THEN s[1]
    ELSE LET rest == PyMin(Tail(s))
         IN  IF Lt(rest, s[1]) THEN rest ELSE s[1]

\* The state before the first statement runs.
Fresh ==
    /\ pc = "draw_a"
    /\ a = None /\ b = None /\ p = None /\ m = None /\ h = None /\ x = None
    /\ inputs = <<>> /\ outputs = <<>>
    /\ stdout = <<>> /\ fig = None /\ saved = <<>>

\* The script as the interpreter starts it: the generator is not seeded.
Init ==
    /\ Fresh
    /\ rng = Unseeded
    /\ runs = 0 /\ prev = None

\* a = random_int32()
DrawA ==
    /\ pc = "draw_a"
    /\ \E k \in Draws(rng) : a' = random_int32(k)
    /\ rng' = Advance(rng)
    /\ pc' = "draw_b"
    /\ UNCHANGED <<b, p, m, h, x, inputs, outputs, stdout, fig, saved, runs, prev>>

\* b = random_int32()
DrawB ==
    /\ pc = "draw_b"
    /\ \E k \in Draws(rng) : b' = random_int32(k)
    /\ rng' = Advance(rng)
    /\ pc' = "set_p"
    /\ UNCHANGED <<a, p, m, h, x, inputs, outputs, stdout, fig, saved, runs, prev>>

\* A slip: the exponent is one too large, p = (1<<62)-1.
SetPWide ==
    /\ pc = "set_p"
    /\ p' = PyInt(Pow2(PrimeBits + 1) - 1)
    /\ pc' = "set_m"
    /\ UNCHANGED <<a, b, m, h, x, inputs, outputs, stdout, fig, saved, rng, runs, prev>>

\* p = (1<<61)-1
SetP ==
    /\ pc = "set_p"
    /\ p' = PyInt(Pow2(PrimeBits) - 1)
    /\ pc' = "set_m"
    /\ UNCHANGED <<a, b, m, h, x, inputs, outputs, stdout, fig, saved, rng, runs, prev>>

\* m = (1<<32)
SetM ==
    /\ pc = "set_m"
    /\ m' = PyInt(Pow2(WordBits))
    /\ pc' = "make_h"
    /\ UNCHANGED <<a, b, p, h, x, inputs, outputs, stdout, fig, saved, rng, runs, prev>>

\* h = create_hashing(a, b, p, m)
MakeH ==
    /\ pc = "make_h"
    /\ h' = create_hashing(a, b, p, m)
    /\ pc' = "sample"
    /\ UNCHANGED <<a, b, p, m, x, inputs, outputs, stdout, fig, saved, rng, runs, prev>>

\* A slip: the loop variable of the comprehension is named a, and a list
\* comprehension binds its variable in the enclosing scope.
SampleLeak ==
    /\ pc = "sample"
    /\ Len(outputs) < N
    /\ \E k \in Draws(rng) :
         /\ inputs' = Append(inputs, random_int32(k))
         /\ outputs' = Append(outputs, apply_h(h, random_int32(k)))
    /\ a' = PyInt(Len(outputs))
    /\ rng' = Advance(rng)
    /\ UNCHANGED <<pc, b, p, m, h, x, stdout, fig, saved, runs, prev>>

\* One turn of [h(random_int32()) for i in xrange(2**18)]: a value is
\* drawn, h is applied to it, the result joins the list being built.
Sample ==
    /\ pc = "sample"
    /\ Len(outputs) < N
    /\ \E k \in Draws(rng) :
         /\ inputs' = Append(inputs, random_int32(k))
         /\ outputs' = Append(outputs, apply_h(h, random_int32(k)))
    /\ rng' = Advance(rng)
    /\ UNCHANGED <<pc, a, b, p, m, h, x, stdout, fig, saved, runs, prev>>

\* A slip: the loop is one turn short.
AssignXShort ==
    /\ pc = "sample"
    /\ Len(outputs) >= N - 1
    /\ x' = PyList(outputs)
    /\ pc' = "print"
    /\ UNCHANGED <<a, b, p, m, h, inputs, outputs, stdout, fig, saved, rng, runs, prev>>

\* x = [...]: the finished list is bound to x.
AssignX ==
    /\ pc = "sample"
    /\ Len(outputs) = N
    /\ x' = PyList(outputs)
    /\ pc' = "print"
    /\ UNCHANGED <<a, b, p, m, h, inputs, outputs, stdout, fig, saved, rng, runs, prev>>

\* print (1<<32)-1, max(x), 0, min(x)
PrintReport ==
    /\ pc = "print"
    /\ stdout' = Append(stdout,
                        <<PyInt(Pow2(WordBits) - 1), PyMax(x.v), PyInt(0), PyMin(x.v)>>)
    /\ pc' = "hist"
    /\ UNCHANGED <<a, b, p, m, h, x, inputs, outputs, fig, saved, rng, runs, prev>>

\* plt.hist(x, 100)
Hist ==
    /\ pc = "hist"
    /\ fig' = [t |-> "figure", v |-> [data |-> x.v, bins |-> 100]]
    /\ pc' = "savefig"
    /\ UNCHANGED <<a, b, p, m, h, x, inputs, outputs, stdout, saved, rng, runs, prev>>

\* plt.savefig("universal_hash.png")
Savefig ==
    /\ pc = "savefig"
    /\ saved' = Append(saved, [name |-> "universal_hash.png", figure |-> fig])
    /\ pc' = "done"
    /\ UNCHANGED <<a, b, p, m, h, x, inputs, outputs, stdout, fig, rng, runs, prev>>

Next ==
    \/ DrawA
    \/ DrawB
    \/ SetP
    \/ SetM
    \/ MakeH
    \/ Sample
    \/ AssignX
    \/ PrintReport
    \/ Hist
    \/ Savefig

Spec == Init /\ [][Next]_vars

\* The scheduler of a sequential script: a statement that can run, runs.
SpecFair == Spec /\ WF_vars(Next)

\* ------------------------------------------------------------ h as a function
\* The arguments, coefficients, moduli and range sizes h is tried on.
Args == (0 .. MaxX) \cup {50}
Moduli == {0, 2, 3, 5, 7, 31, 97}
Ranges == 0 .. MaxM
Coefs(pv) == {c \in {0, 1, 2, 5, pv - 1} : c >= 0 /\ (pv > 0 => c < pv)}

\* h = create_hashing(a, b, p, m) over integers, before any call.
InitHash ==
    /\ pc = "call"
    /\ \E pv \in Moduli, mv \in Ranges :
         \E av \in Coefs(pv), bv \in Coefs(pv) :
            /\ a = PyInt(av) /\ b = PyInt(bv) /\ p = PyInt(pv) /\ m = PyInt(mv)
            /\ h = create_hashing(PyInt(av), PyInt(bv), PyInt(pv), PyInt(mv))
    /\ x = None /\ inputs = <<>> /\ outputs = <<>>
    /\ stdout = <<>> /\ fig = None /\ saved = <<>>
    /\ rng = Unseeded /\ runs = 0 /\ prev = None

\* h(v) for an integer v; what it returns (or raises) is recorded.
HashCall ==
    /\ pc = "call"
    /\ Len(inputs) < MaxCalls
    /\ \E v \in Args :
         /\ inputs' = Append(inputs, PyInt(v))
         /\ outputs' = Append(outputs, apply_h(h, PyInt(v)))
    /\ UNCHANGED <<pc, a, b, p, m, h, x, stdout, fig, saved, rng, runs, prev>>

SpecHash == InitHash /\ [][HashCall]_vars

\* ------------------------------------------------------------ seeded runs
\* The script started with its generator seeded with s.
InitSeeded ==
    /\ Fresh
    /\ \E s \in Outcomes : rng = Seeded(s)
    /\ runs = 0 /\ prev = None

\* The finished script is run again from the same seed; the sample of the
\* run before is kept for comparison.
Rerun ==
    /\ pc = "done"
    /\ runs < MaxRuns
    /\ prev' = x
    /\ runs' = runs + 1
    /\ rng' = Seeded(rng.seed)
    /\ pc' = "draw_a"
    /\ a' = None /\ b' = None /\ p' = None /\ m' = None /\ h' = None /\ x' = None
    /\ inputs' = <<>> /\ outputs' = <<>>
    /\ stdout' = <<>> /\ fig' = None /\ saved' = <<>>

SpecSeeded == InitSeeded /\ [][Next \/ Rerun]_vars

\* ------------------------------------------------------------ properties
\* n is a prime number.
IsPrime(n) == n >= 2 /\ \A d \in 2 .. (n - 1) : n % d # 0

\* The domain the contract of create_hashing states: integers, p prime,
\* m >= 1, 0 <= a < p and 0 <= b < p.
InDomain ==
    /\ a.t = "int" /\ b.t = "int" /\ p.t = "int" /\ m.t = "int"
    /\ IsPrime(p.v) /\ m.v >= 1
    /\ 0 <= a.v /\ a.v < p.v /\ 0 <= b.v /\ b.v < p.v

Calls == 1 .. Len(outputs)

\* C1: on the contract's domain every value h returns is an integer y with
\* 0 <= y < m, that is 0 <= y <= m - 1 (for m = 2^WordBits: at most
\* 2^WordBits - 1).
C1_OutputInRange ==
    InDomain =>
        \A i \in Calls :
            /\ outputs[i].t = "int"
            /\ 0 <= outputs[i].v /\ outputs[i].v < m.v
            /\ (m.v = Pow2(WordBits) => outputs[i].v <= Pow2(WordBits) - 1)

\* C1's case: a call on the domain that returns the largest value m - 1,
\* with p above m.
C1_Witness ==
    /\ InDomain /\ p.v > m.v /\ m.v = Pow2(WordBits)
    /\ \E i \in Calls : outputs[i] = PyInt(m.v - 1)

\* C2: on the contract's domain h(x) is ((a*x + b) mod p) mod m, the
\* reduction by p first.
C2_MatchesFormula ==
    InDomain =>
        \A i \in Calls :
            outputs[i] = PyInt(((a.v * inputs[i].v + b.v) % p.v) % m.v)

\* C2's case: a=1, b=0, p=97, m=10 applied to x=50 has returned 0.
C2_Witness ==
    /\ a = PyInt(1) /\ b = PyInt(0) /\ p = PyInt(97) /\ m = PyInt(10)
    /\ \E i \in Calls : inputs[i] = PyInt(50) /\ outputs[i] = PyInt(0)

C4_ReportOrdered ==
    stdout # <<>> =>
        /\ Len(stdout[1]) = 4
        /\ stdout[1][1] = PyInt(m.v - 1)
        /\ stdout[1][2] = PyMax(x.v)
        /\ stdout[1][3] = PyInt(0)
        /\ stdout[1][4] = PyMin(x.v)
        /\ Le(stdout[1][3], stdout[1][4])
        /\ Le(stdout[1][4], stdout[1][2])
        /\ Le(stdout[1][2], stdout[1][1])

\* C5: with a = 0 the value of h does not depend on its argument: it is
\* (b mod p) mod m.
C5_ConstantWhenAZero ==
    (InDomain /\ a = PyInt(0)) =>
        \A i \in Calls : outputs[i] = PyInt((b.v % p.v) % m.v)

\* C5's case: a=0, b=5, p=97, m=10 applied to two different arguments has
\* returned 5 both times.
C5_Witness ==
    /\ a = PyInt(0) /\ b = PyInt(5) /\ p = PyInt(97) /\ m = PyInt(10)
    /\ Len(outputs) = 2 /\ inputs[1] # inputs[2]
    /\ outputs[1] = PyInt(5) /\ outputs[2] = PyInt(5)

\* C6: on the contract's domain neither the construction of h nor a call
\* of h raises: h is a closure and every call returns a number.
C6_NeverRaises ==
    InDomain =>
        /\ h = create_hashing(a, b, p, m)
        /\ \A i \in Calls : IsNumber(outputs[i])

\* C6's case: a call on the domain with the smallest range size, m = 1,
\* and a dividend of 0 has returned.
C6_Witness ==
    /\ InDomain /\ m.v = 1 /\ a.v = 0 /\ b.v = 0
    /\ \E i \in Calls : outputs[i] = PyInt(0)

\* Equal arguments have got equal values from h.
SameArgSameValue ==
    \A i \in Calls : \A j \in Calls :
        inputs[i] = inputs[j] => outputs[i] = outputs[j]

\* C7: once h is constructed no step changes a, b, p, m or h, and h
\* returns the same value for the same argument wherever it is applied.
C7_ParametersFixed ==
    [][~IsNone(h) =>
          /\ a' = a /\ b' = b /\ p' = p /\ m' = m /\ h' = h
          /\ SameArgSameValue']_vars

\* C7's case: the run is over, h was applied twice to the same argument,
\* and the parameters are those h was made from.
C7_Witness ==
    /\ pc = "done" /\ h = create_hashing(a, b, p, m)
    /\ Len(inputs) = N /\ inputs[1] = inputs[N] /\ outputs[1] = outputs[N]

\* The values random_int32 can return.
DomainValues == {random_int32(k) : k \in Outcomes}

\* The order of the driver's events, as a property of each state.
C8_Order ==
    /\ Len(inputs) = Len(outputs) /\ Len(outputs) <= N
    /\ Len(stdout) <= 1 /\ Len(saved) <= 1
    /\ (~IsNone(x) => x = PyList(outputs) /\ Len(x.v) = N)
    /\ (stdout # <<>> => ~IsNone(x))
    /\ (saved # <<>> =>
          stdout # <<>> /\ saved[1].name = "universal_hash.png"
                        /\ saved[1].figure.v.data = x.v)
    /\ (pc = "done" => Len(stdout) = 1 /\ Len(saved) = 1)

\* A step that touches the sample adds one value to it, h of one newly
\* drawn value, and there is none once the sample is bound to x (and so
\* none after the report); what is printed or saved stays.
C8_Step ==
    /\ (inputs' # inputs \/ outputs' # outputs) =>
          /\ IsNone(x) /\ stdout = <<>> /\ saved = <<>>
          /\ Len(inputs') = Len(inputs) + 1
          /\ SubSeq(inputs', 1, Len(inputs)) = inputs
          /\ inputs'[Len(inputs')] \in DomainValues
          /\ outputs' = Append(outputs, apply_h(h, inputs'[Len(inputs')]))
    /\ (stdout # <<>> => stdout' = stdout)
    /\ (saved # <<>> => saved' = saved)

\* C8: the driver is one pass: exactly N samples, each h of one drawn
\* value, then the report, once, then the image, once; no sample after
\* the report; and the run ends.
C8_SinglePass == [] C8_Order /\ [][C8_Step]_vars /\ <>(pc = "done")

\* C8's case: the run has ended with N samples, one report and one image.
C8_Witness ==
    /\ pc = "done" /\ Len(x.v) = N /\ Len(inputs) = N
    /\ Len(stdout) = 1 /\ Len(saved) = 1

\* u lies in [0, 2^WordBits - 1].
InWord(u) == IsNumber(u) /\ Le(PyInt(0), u) /\ Le(u, PyInt(Pow2(WordBits) - 1))

\* C9: the coefficients the driver draws lie in [0, 2^WordBits - 1] and
\* below p, so h is constructed with 0 <= a < p and 0 <= b < p; every
\* sampled input lies in [0, 2^WordBits - 1].
C9_DriverPrecondition ==
    /\ (~IsNone(a) => InWord(a))
    /\ (~IsNone(b) => InWord(b))
    /\ Pow2(WordBits) - 1 < Pow2(PrimeBits) - 1
    /\ (~IsNone(h) =>
          /\ h.p = PyInt(Pow2(PrimeBits) - 1)
          /\ Le(PyInt(0), h.a) /\ Lt(h.a, h.p)
          /\ Le(PyInt(0), h.b) /\ Lt(h.b, h.p))
    /\ \A i \in 1 .. Len(inputs) : InWord(inputs[i])

\* C9's case: h is constructed from the largest coefficients the generator
\* yields and has been applied to the largest input.
C9_Witness ==
    /\ ~IsNone(h)
    /\ h.a = random_int32(Pow2(MantBits) - 1)
    /\ h.b = random_int32(Pow2(MantBits) - 1)
    /\ \E i \in 1 .. Len(inputs) : inputs[i] = random_int32(Pow2(MantBits) - 1)

\* C10: in the driver a*x + b is at most (2^WordBits - 1) * 2^WordBits,
\* below 2^(2*WordBits), so reducing it modulo 2^(2*WordBits) first
\* changes no hash value; reduced by p it is below 2^PrimeBits.  Stated
\* of every application of h, as it happens.
C10_NoOverflow ==
    [][outputs' # outputs =>
          \A axb \in {inner(h, inputs'[Len(inputs')])} :
          \A red \in {PyMod(axb, h.p)} :
              /\ Le(axb, PyInt((Pow2(WordBits) - 1) * Pow2(WordBits)))
              /\ Lt(axb, PyInt(Pow2(2 * WordBits)))
              /\ outputs'[Len(outputs')] =
                   PyMod(PyMod(PyMod(axb, PyInt(Pow2(2 * WordBits))), h.p), h.m)
              /\ Le(PyInt(0), red) /\ Lt(red, PyInt(Pow2(PrimeBits)))]_vars

\* C10's case: a sample whose a*x + b is above p, so that the reduction
\* by p changes it.
C10_Witness ==
    \E i \in Calls :
        /\ Lt(h.p, inner(h, inputs[i]))
        /\ PyMod(inner(h, inputs[i]), h.p) # inner(h, inputs[i])

=============================================================================
